---------------------------- MODULE Spec2Model ----------------------------
(***************************************************************************)
(* Webhook ingestion and query service (app/main.py, app/storage.py,       *)
(* app/models.py, app/metrics.py).                                         *)
(*                                                                         *)
(* Strings are sequences of one-character strings, so that the patterns,   *)
(* the length limits, the ordering of the store and the LIKE filter are    *)
(* computed character by character as the code computes them.              *)
(***************************************************************************)
EXTENDS Integers, Sequences, FiniteSets, TLC

VARIABLES
    secret,                  \* settings.webhook_secret
    table,                   \* committed rows of the messages table
    dbLock,                  \* request holding SQLite's write lock, 0 if free
    now,                     \* wall clock, whole seconds
    req,                     \* webhook requests: position and locals
    http_requests_total,     \* Metrics.http_requests_total
    webhook_requests_total,  \* Metrics.webhook_requests_total
    request_latency,         \* Metrics.request_latency (Histogram)
    logs,                    \* records written by logger.info("request", ...)
    attempts,                \* INSERT statements in the order SQLite ran them
    lst,                     \* GET /messages request: position and locals
    schema,                  \* the messages table exists in the database file
    reachable,               \* the database file can be opened and read
    resp,                    \* last answer of /stats, /health/* or /metrics
    startups,                \* runs of _startup (starts of the service) counted so far
    statsReq,                \* GET /stats request: position and locals
    mlock,                   \* Metrics._lock: the thread holding it, 0 if free
    calls,                   \* calls of Metrics methods by threads: position, locals
    applied                  \* Metrics calls in the order they took the lock

svcVars == <<schema, reachable, resp, startups>>
metricVars == <<mlock, calls, applied>>

vars == <<secret, table, dbLock, now, req, http_requests_total,
          webhook_requests_total, request_latency, logs, attempts, lst,
          svcVars, statsReq, metricVars>>

(***************************************************************************)
(* Bounds of the model.                                                    *)
(***************************************************************************)
MaxRequests == 2
MaxClock == 1
MaxRows == 3
MaxPageLimit == 2
MaxThreads == 3
MaxProbes == 2
MaxCalls == 3
MaxSenders == 11
MaxStartups == 2

(***************************************************************************)
(* Characters and strings.                                                 *)
(***************************************************************************)
Digits == {"0", "1", "2", "3", "4", "5", "6", "7", "8", "9"}

\* The characters the model uses, in code point order (SQLite's BINARY
\* collation compares the UTF-8 bytes).
AsciiOrder ==
    <<"%", "+", "-", "0", "1", "2", "3", "4", "5", "6", "7", "8", "9", ":",
      "A", "B", "T", "Z", "_", "a", "b", "m", "x", "z">>

Code(c) == CHOOSE i \in 1..Len(AsciiOrder) : AsciiOrder[i] = c

Min(a, b) == IF a <= b THEN a ELSE b

\* s < t, byte by byte, a proper prefix being smaller.
RECURSIVE StrLess(_, _)
StrLess(s, t) ==
    IF t = <<>> THEN FALSE
    ELSE IF s = <<>> THEN TRUE
    ELSE IF s[1] # t[1] THEN Code(s[1]) < Code(t[1])
    ELSE StrLess(Tail(s), Tail(t))

StrLeq(s, t) == s = t \/ StrLess(s, t)

(***************************************************************************)
(* app/models.py: patterns and field constraints of WebhookMessageIn.      *)
(***************************************************************************)
\* ^\+[0-9]+$
E164_REGEX(s) ==
    /\ Len(s) >= 2
    /\ s[1] = "+"
    /\ \A i \in 2..Len(s) : s[i] \in Digits

\* ^\d{4}-\d{2}-\d{2}T\d{2}:\d{2}:\d{2}Z$
ISO_UTC_Z_REGEX(s) ==
    /\ Len(s) = 20
    /\ \A i \in {1, 2, 3, 4, 6, 7, 9, 10, 12, 13, 15, 16, 18, 19} : s[i] \in Digits
    /\ s[5] = "-" /\ s[8] = "-" /\ s[11] = "T"
    /\ s[14] = ":" /\ s[17] = ":" /\ s[20] = "Z"

MaxTextLen == 4096

(***************************************************************************)
(* JSON.  A member of an object is [t, s]: t is "absent" (no such key),    *)
(* "null", "num" (any non-string, non-null value) or "str" with s its      *)
(* characters.                                                             *)
(***************************************************************************)
Keys == {"message_id", "from", "to", "ts", "text", "from_msisdn", "to_msisdn"}

Absent == [t |-> "absent", s |-> <<>>]
Null == [t |-> "null", s |-> <<>>]
Num == [t |-> "num", s |-> <<>>]
Str(s) == [t |-> "str", s |-> s]

NoMembers == [k \in Keys |-> Absent]

\* A request body: no bytes at all, bytes that are not JSON, a JSON value
\* that is not an object, or a JSON object with members o.
EmptyBody == [kind |-> "empty", o |-> NoMembers]
MalformedBody == [kind |-> "malformed", o |-> NoMembers]
ArrayBody == [kind |-> "array", o |-> NoMembers]
ObjectBody(o) == [kind |-> "object", o |-> o]

\* dict.get(key): None for a missing key.
DictGet(o, k) == IF o[k].t = "absent" THEN Null ELSE o[k]


(***************************************************************************)
(* WebhookMessageIn.model_validate (pydantic 2).                           *)
(***************************************************************************)
\* Config.populate_by_name: a member is looked up under the field's alias
\* and, when that key is missing, under the field's own name.
LookupField(o, alias, name) == IF o[alias].t # "absent" THEN o[alias] ELSE o[name]

\* Errors of a required string field; ok: its constraint holds of v.s
StrFieldErrors(v, loc, ok, failure) ==
    IF v.t = "absent" THEN {[loc |-> loc, type |-> "missing"]}
    ELSE IF v.t # "str" THEN {[loc |-> loc, type |-> "string_type"]}
    ELSE IF ~ok THEN {[loc |-> loc, type |-> failure]}
    ELSE {}

MinLength1(s) == Len(s) >= 1

\* text: Optional[constr(max_length=4096)] = None
TextErrors(v) ==
    IF v.t \in {"absent", "null"} THEN {}
    ELSE IF v.t # "str" THEN {[loc |-> "text", type |-> "string_type"]}
    ELSE IF Len(v.s) > MaxTextLen THEN {[loc |-> "text", type |-> "string_too_long"]}
    ELSE {}

\* The ValidationError's errors(); empty when the payload validates.
SchemaErrors(raw) ==
    IF raw.kind # "object" THEN {[loc |-> "", type |-> "model_type"]}
    ELSE
        LET id == raw.o["message_id"]
            from == LookupField(raw.o, "from", "from_msisdn")
            to == LookupField(raw.o, "to", "to_msisdn")
            ts == raw.o["ts"]
        IN  StrFieldErrors(id, "message_id", MinLength1(id.s), "string_too_short")
            \cup StrFieldErrors(from, "from", E164_REGEX(from.s), "string_pattern_mismatch")
            \cup StrFieldErrors(to, "to", E164_REGEX(to.s), "string_pattern_mismatch")
            \cup StrFieldErrors(ts, "ts", ISO_UTC_Z_REGEX(ts.s), "string_pattern_mismatch")
            \cup TextErrors(raw.o["text"])

\* The validated model: msg.message_id, msg.from_msisdn, msg.to_msisdn,
\* msg.ts, msg.text (None for a missing or null text).
WebhookMessageIn(raw) ==
    [message_id |-> raw.o["message_id"].s,
     from_msisdn |-> LookupField(raw.o, "from", "from_msisdn").s,
     to_msisdn |-> LookupField(raw.o, "to", "to_msisdn").s,
     ts |-> raw.o["ts"].s,
     text |-> IF raw.o["text"].t = "str" THEN raw.o["text"] ELSE Null]

NoMsg ==
    [message_id |-> <<>>, from_msisdn |-> <<>>, to_msisdn |-> <<>>,
     ts |-> <<>>, text |-> Null]

(***************************************************************************)
(* Signature.  A digest is the HMAC-SHA256 of msg under key, taken to be   *)
(* collision free; an X-Signature header is absent or a string of some     *)
(* form: "hex" the lower-case hex digest, "HEX" the same in upper case,    *)
(* "padded" the same between blanks, "empty" the empty string, "garbage"   *)
(* an ASCII string that is no digest, "nonascii" a string holding a        *)
(* character above 0x7F (headers are decoded as latin-1).                  *)
(***************************************************************************)
NoSecret == "None"

NoHeader == [t |-> "absent", form |-> "empty", key |-> NoSecret, msg |-> EmptyBody]
Header(form, key, msg) == [t |-> "str", form |-> form, key |-> key, msg |-> msg]

\* Python truthiness of an Optional[str]
Truthy(h) == h.t = "str" /\ h.form # "empty"

\* hmac.new(secret, body, sha256).hexdigest()
HexDigest(key, body) == Header("hex", key, body)

\* Mutant: the header compared as it came
StripLower_AsGiven(h) == h

\* provided_hex.strip().lower()
StripLower(h) ==
    IF h.form \in {"hex", "HEX", "padded"} THEN [h EXCEPT !.form = "hex"] ELSE h

\* hmac.compare_digest(a, b) on str: TypeError unless both are ASCII.
CompareDigest(a, b) ==
    IF a.form = "nonascii" \/ b.form = "nonascii" THEN "raise"
    ELSE IF a = b THEN "true"
    ELSE "false"

\* _signature_valid: "true", "false" or "raise"
signature_valid(key, body, provided_hex) ==
    CompareDigest(HexDigest(key, body), StripLower(provided_hex))

\* The condition of the first branch of webhook(), with Python's
\* short-circuit evaluation: "reject", "pass" or "raise".
SignatureGate(sig, key, body) ==
    IF ~Truthy(sig) THEN "reject"
    ELSE IF key = NoSecret THEN "reject"
    ELSE LET v == signature_valid(key, body, sig)
         IN  IF v = "raise" THEN "raise"
             ELSE IF v = "true" THEN "pass"
             ELSE "reject"

(***************************************************************************)
(* webhook(): everything the handler does up to its return, its exception  *)
(* or the call of storage.insert_message.                                  *)
(***************************************************************************)
NoFields == [set |-> FALSE, message_id |-> Null, dup |-> FALSE, result |-> "none"]
LogFields(id, dup, result) ==
    [set |-> TRUE, message_id |-> id, dup |-> dup, result |-> result]

NoBody == [kind |-> "none", errors |-> {}]
InvalidSignatureBody == [kind |-> "detail: invalid signature", errors |-> {}]
StatusOkBody == [kind |-> "status: ok", errors |-> {}]
InternalErrorBody == [kind |-> "Internal Server Error", errors |-> {}]
\* _validation_422
validation_422(detail) == [kind |-> "detail: list", errors |-> detail]

\* json.loads(raw.decode("utf-8")) raises
JsonRaises(raw) == raw.kind \in {"empty", "malformed"}

\* msg_id of the invalid-signature branch: an empty body reads as {}
BestEffortId401(raw) ==
    IF raw.kind = "object" THEN DictGet(raw.o, "message_id") ELSE Null

BestEffortId422(raw) ==
    IF raw.kind = "object" THEN DictGet(raw.o, "message_id") ELSE Null

Outcome(kind, status, body, wf, msg) ==
    [kind |-> kind, status |-> status, body |-> body, wf |-> wf, msg |-> msg]

\* Mutant: the payload is validated and handed to the store before the
\* signature decides the response.
WebhookHandler_VerifyLast(key, sig, raw) ==
    LET gate == SignatureGate(sig, key, raw)
    IN  IF ~JsonRaises(raw) /\ SchemaErrors(raw) = {}
        THEN Outcome("insert", IF gate = "pass" THEN 200 ELSE 401,
                     IF gate = "pass" THEN StatusOkBody ELSE InvalidSignatureBody,
                     NoFields, WebhookMessageIn(raw))
        ELSE Outcome("return", IF gate = "pass" THEN 422 ELSE 401,
                     IF gate = "pass" THEN validation_422(SchemaErrors(raw))
                     ELSE InvalidSignatureBody,
                     LogFields(Null, FALSE,
                               IF gate = "pass" THEN "validation_error"
                               ELSE "invalid_signature"), NoMsg)

WebhookHandler(key, sig, raw) ==
    LET gate == SignatureGate(sig, key, raw)
    IN  IF gate = "raise"
        THEN Outcome("raise", 500, InternalErrorBody, NoFields, NoMsg)
        ELSE IF gate = "reject"
        THEN Outcome("return", 401, InvalidSignatureBody,
                     LogFields(BestEffortId401(raw), FALSE, "invalid_signature"), NoMsg)
        ELSE IF JsonRaises(raw)
        THEN Outcome("return", 422,
                     validation_422({[loc |-> "body", type |-> "value_error.jsondecode"]}),
                     LogFields(Null, FALSE, "validation_error"), NoMsg)
        ELSE IF SchemaErrors(raw) # {}
        THEN Outcome("return", 422, validation_422(SchemaErrors(raw)),
                     LogFields(BestEffortId422(raw), FALSE, "validation_error"), NoMsg)
        ELSE Outcome("insert", 200, StatusOkBody, NoFields, WebhookMessageIn(raw))

(***************************************************************************)
(* app/storage.py: the messages table.                                     *)
(***************************************************************************)
Row(msg, created_at) ==
    [message_id |-> msg.message_id, from_msisdn |-> msg.from_msisdn,
     to_msisdn |-> msg.to_msisdn, ts |-> msg.ts, text |-> msg.text,
     created_at |-> created_at]

\* Mutant: the table without its primary key
UniqueViolation_NoPrimaryKey(tbl, message_id) == FALSE

\* message_id TEXT PRIMARY KEY: the INSERT raises sqlite3.IntegrityError
UniqueViolation(tbl, message_id) == \E r \in tbl : r.message_id = message_id

\* Mutant: writers that do not exclude each other
WriterMayProceed_NoLock(lock) == TRUE

\* SQLite's write lock: an INSERT runs once no other connection is writing.
WriterMayProceed(lock) == lock = 0

\* utc_now_iso(): the clock read by an insert; time may have moved on.
ClockReadings == now..Min(now + 1, MaxClock)

(***************************************************************************)
(* app/metrics.py                                                          *)
(***************************************************************************)
Paths ==
    {"/webhook", "/messages", "/stats", "/health/live", "/health/ready", "/metrics"}
Statuses == {200, 401, 422, 500, 503}
Results == {"invalid_signature", "validation_error", "created", "duplicate"}

\* Upper bounds of the latency histogram, in milliseconds.
Buckets == <<5, 10, 25, 50, 100, 250, 500, 1000, 2500, 5000>>
BucketSet == {Buckets[i] : i \in 1..Len(Buckets)}

\* Histogram.with_buckets
with_buckets == [counts |-> [ub \in BucketSet |-> 0], sum |-> 0, count |-> 0]

\* Mutant: a value on a bound falls outside its bucket
InBucket_Strict(value, ub) == value < ub

\* if value <= ub
InBucket(value, ub) == value <= ub

\* Histogram.observe
observe(h, value) ==
    [counts |-> [ub \in BucketSet |->
                    IF InBucket(value, ub) THEN h.counts[ub] + 1 ELSE h.counts[ub]],
     sum |-> h.sum + value,
     count |-> h.count + 1]

\* Metrics.inc_http: a missing key counts 0
inc_http(m, path, status) == [m EXCEPT ![<<path, status>>] = @ + 1]

\* Metrics.inc_webhook
inc_webhook(m, result) == [m EXCEPT ![result] = @ + 1]

\* Metrics.observe_latency
observe_latency(h, ms) == observe(h, IF ms < 0 THEN 0 ELSE ms)

(***************************************************************************)
(* Requests.                                                               *)
(***************************************************************************)
Requests == 1..MaxRequests

IdleReq ==
    [pc |-> "idle", sig |-> NoHeader, raw |-> EmptyBody, msg |-> NoMsg,
     created_at |-> 0, dup |-> FALSE, status |-> 0, body |-> NoBody,
     wf |-> NoFields]

IdleList ==
    [pc |-> "idle", limit |-> 1, offset |-> 0, from |-> Null, since |-> Null,
     q |-> Null, total |-> 0, totals |-> <<>>, got |-> <<>>, writes |-> FALSE,
     before |-> {}]

\* stats_sync before its first statement
IdleStats ==
    [pc |-> "idle", total |-> 0, senders |-> 0, per_sender |-> <<>>,
     writes |-> FALSE]

\* No answer yet
NoResp == [path |-> "none", status |-> 0, body |-> NoBody]

\* Threads calling the Metrics object directly
Threads == 1..MaxThreads

\* The arguments of a call: (path, status), result or a latency in ms
NoArg == [path |-> "none", status |-> 0, result |-> "none", ms |-> 0]

\* What render_prometheus has put into lines so far
NoRender == [http |-> {}, webhook |-> {}, buckets |-> <<>>, inf |-> 0, sum |-> 0, count |-> 0]

IdleCall ==
    [pc |-> "idle", op |-> "none", arg |-> NoArg, read |-> 0, idx |-> 0,
     out |-> NoRender]

\* After startup: the schema is in place, nothing has been answered, the
\* metrics lock is free.
InitService ==
    /\ schema = TRUE
    /\ reachable = TRUE
    /\ resp = NoResp
    /\ startups = 0
    /\ statsReq = IdleStats
    /\ mlock = 0
    /\ calls = [t \in Threads |-> IdleCall]
    /\ applied = <<>>

\* The record request_logging_middleware logs: webhook_log_fields merged in
\* when the handler set them.
RequestLog(p, method, path, status, latency_ms, wf) ==
    [request_id |-> p, method |-> method, path |-> path, status |-> status,
     latency_ms |-> latency_ms, wf |-> wf]

Init ==
    /\ secret \in {NoSecret, "test-secret"}
    /\ table = {}
    /\ dbLock = 0
    /\ now = 0
    /\ req = [p \in Requests |-> IdleReq]
    /\ http_requests_total = [k \in Paths \X Statuses |-> 0]
    /\ webhook_requests_total = [r \in Results |-> 0]
    /\ request_latency = with_buckets
    /\ logs = <<>>
    /\ attempts = <<>>
    /\ lst = IdleList
    /\ InitService

\* POST /webhook arrives with body raw and X-Signature sig: the middleware's
\* entry and webhook() up to its return, its exception or the hand-over of
\* insert_message to the thread pool.
Handle(p, raw, sig) ==
    /\ req[p].pc = "idle"
    /\ \A q \in Requests : q < p => req[q].pc # "idle"
    /\ LET h == WebhookHandler(secret, sig, raw)
       IN  /\ req' = [req EXCEPT ![p] =
                        [@ EXCEPT !.pc = IF h.kind = "insert" THEN "insert" ELSE "responded",
                                  !.sig = sig, !.raw = raw, !.msg = h.msg,
                                  !.status = h.status, !.body = h.body,
                                  !.wf = h.wf]]
           /\ webhook_requests_total' =
                 IF h.kind = "return"
                 THEN inc_webhook(webhook_requests_total, h.wf.result)
                 ELSE webhook_requests_total
    /\ UNCHANGED <<secret, table, dbLock, now, http_requests_total,
                   request_latency, logs, attempts, lst,
                   svcVars, statsReq, metricVars>>

\* insert_message_sync, in a pool thread: the clock is read and the INSERT
\* runs.  SQLite lets one connection write at a time (the others wait in
\* its busy handler); a taken message_id raises IntegrityError, which the
\* method answers with dup=True, closing (rolling back) its connection.
InsertExecute(p) ==
    /\ req[p].pc = "insert"
    /\ WriterMayProceed(dbLock)
    /\ \E t \in ClockReadings :
          /\ now' = t
          /\ IF UniqueViolation(table, req[p].msg.message_id)
             THEN /\ req' = [req EXCEPT ![p] = [@ EXCEPT !.pc = "resume", !.dup = TRUE,
                                                         !.created_at = t]]
                  /\ dbLock' = 0
                  /\ attempts' = Append(attempts, [by |-> p, dup |-> TRUE])
             ELSE /\ req' = [req EXCEPT ![p] = [@ EXCEPT !.pc = "commit", !.created_at = t]]
                  /\ dbLock' = p
                  /\ attempts' = Append(attempts, [by |-> p, dup |-> FALSE])
    /\ UNCHANGED <<secret, table, http_requests_total, webhook_requests_total,
                   request_latency, logs, lst, svcVars, statsReq, metricVars>>

\* conn.commit(): the row becomes visible and the write lock is released.
InsertCommit(p) ==
    /\ req[p].pc = "commit"
    /\ table' = table \cup {Row(req[p].msg, req[p].created_at)}
    /\ dbLock' = 0
    /\ req' = [req EXCEPT ![p] = [@ EXCEPT !.pc = "resume", !.dup = FALSE]]
    /\ UNCHANGED <<secret, now, http_requests_total, webhook_requests_total,
                   request_latency, logs, attempts, lst,
                   svcVars, statsReq, metricVars>>

\* webhook() after the insert: log fields, webhook metric, response.
Resume(p) ==
    /\ req[p].pc = "resume"
    /\ LET result == IF req[p].dup THEN "duplicate" ELSE "created"
       IN  /\ req' = [req EXCEPT ![p] =
                        [@ EXCEPT !.pc = "responded",
                                  !.wf = LogFields(Str(req[p].msg.message_id),
                                                   req[p].dup, result)]]
           /\ webhook_requests_total' = inc_webhook(webhook_requests_total, result)
    /\ UNCHANGED <<secret, table, dbLock, now, http_requests_total,
                   request_latency, logs, attempts, lst,
                   svcVars, statsReq, metricVars>>

\* The finally block of request_logging_middleware.
Finish(p, latency_ms) ==
    /\ req[p].pc = "responded"
    /\ http_requests_total' = inc_http(http_requests_total, "/webhook", req[p].status)
    /\ request_latency' = observe_latency(request_latency, latency_ms)
    /\ logs' = Append(logs, RequestLog(p, "POST", "/webhook", req[p].status,
                                       latency_ms, req[p].wf))
    /\ req' = [req EXCEPT ![p] = [@ EXCEPT !.pc = "done"]]
    /\ UNCHANGED <<secret, table, dbLock, now, webhook_requests_total,
                   attempts, lst, svcVars, statsReq, metricVars>>

(***************************************************************************)
(* Inputs.                                                                 *)
(***************************************************************************)
M1 == <<"m", "1">>
M2 == <<"m", "2">>
PhoneA == <<"+", "1">>
PhoneB == <<"+", "2">>
\* "2025-01-15T10:00:00Z" and "2025-01-15T11:00:00Z"
TsA ==
    <<"2", "0", "2", "5", "-", "0", "1", "-", "1", "5", "T", "1", "0", ":", "0", "0", ":", "0", "0", "Z">>
TsB ==
    <<"2", "0", "2", "5", "-", "0", "1", "-", "1", "5", "T", "1", "1", ":", "0", "0", ":", "0", "0", "Z">>
TextA == Str(<<"a", "B">>)
TextB == Str(<<"b">>)

Payload(id, from, to, ts, text) ==
    ObjectBody([NoMembers EXCEPT !["message_id"] = id, !["from"] = from,
                                 !["to"] = to, !["ts"] = ts, !["text"] = text])

\* The signing key of the clients
ClientKey == "test-secret"

\* Bodies of the concurrent specification: the same message_id with
\* different fields, another message_id, a schema-invalid object carrying a
\* message_id, and bytes that are not JSON.
SomeBodies ==
    {Payload(Str(M1), Str(PhoneA), Str(PhoneB), Str(TsA), TextA),
     Payload(Str(M1), Str(PhoneB), Str(PhoneA), Str(TsB), Absent),
     Payload(Str(M2), Str(PhoneA), Str(PhoneB), Str(TsA), TextB),
     Payload(Str(M1), Str(<<"1">>), Str(PhoneB), Str(TsA), TextA),
     MalformedBody}

\* Its headers: correctly signed, missing, wrongly signed, not ASCII.
SomeHeaders(raw) ==
    {Header("hex", ClientKey, raw), NoHeader,
     Header("garbage", ClientKey, raw), Header("nonascii", ClientKey, raw)}

SomeLatencies == {3, 7000}

Next ==
    \/ \E p \in Requests : \E raw \in SomeBodies : \E sig \in SomeHeaders(raw) :
          Handle(p, raw, sig)
    \/ \E p \in Requests : InsertExecute(p)
    \/ \E p \in Requests : InsertCommit(p)
    \/ \E p \in Requests : Resume(p)
    \/ \E p \in Requests : \E ms \in SomeLatencies : Finish(p, ms)

Spec == Init /\ [][Next]_vars

(***************************************************************************)
(* Observations used by the properties.                                    *)
(***************************************************************************)
Answered(p) == req[p].pc \in {"responded", "done"}

\* The request carries the lower-case hex HMAC of its own body under the
\* configured secret.
CorrectlySigned(p) ==
    /\ secret # NoSecret
    /\ req[p].sig = Header("hex", secret, req[p].raw)

\* The message_id an INSERT was run for
AttemptId(i) == req[attempts[i].by].msg.message_id

\* The first INSERT run for the message_id of attempt i
IsFirstAttempt(i) == \A j \in 1..(i - 1) : AttemptId(j) # AttemptId(i)

RowsOf(id) == {r \in table : r.message_id = id}

\* The fields of a row, created_at left out
Fields(r) ==
    [message_id |-> r.message_id, from_msisdn |-> r.from_msisdn,
     to_msisdn |-> r.to_msisdn, ts |-> r.ts, text |-> r.text]

(***************************************************************************)
(* C1.  Idempotent ingestion: of the correctly signed, schema-valid        *)
(* requests, the first INSERT run for a message_id is answered created,    *)
(* every later one duplicate; all of them are answered 200 {"status":      *)
(* "ok"}; the store holds at most one row per message_id, and once the     *)
(* first request is answered exactly one, with the first request's fields. *)
(***************************************************************************)
IdempotentIngestion ==
    /\ \A i \in 1..Len(attempts) : attempts[i].dup = ~IsFirstAttempt(i)
    /\ \A p \in Requests :
          (Answered(p) /\ CorrectlySigned(p) /\ SchemaErrors(req[p].raw) = {}
           /\ ~JsonRaises(req[p].raw))
          => /\ req[p].status = 200
             /\ req[p].body = StatusOkBody
             /\ \E i \in 1..Len(attempts) :
                   /\ attempts[i].by = p
                   /\ req[p].wf.result = IF IsFirstAttempt(i) THEN "created" ELSE "duplicate"
    /\ \A i \in 1..Len(attempts) :
          /\ Cardinality(RowsOf(AttemptId(i))) <= 1
          /\ (IsFirstAttempt(i) /\ Answered(attempts[i].by))
             => \E r \in table : /\ RowsOf(AttemptId(i)) = {r}
                                 /\ Fields(r) = WebhookMessageIn(req[attempts[i].by].raw)

\* Two requests carried the same message_id with different fields and both
\* were answered: one created, one duplicate.
IdempotentIngestionWitness ==
    \E p, q \in Requests :
       /\ p # q /\ req[p].pc = "done" /\ req[q].pc = "done"
       /\ req[p].msg.message_id = req[q].msg.message_id
       /\ req[p].msg # req[q].msg
       /\ req[p].wf.result = "created" /\ req[q].wf.result = "duplicate"

(***************************************************************************)
(* C2.  Concurrent idempotency: whatever the interleaving of the inserts   *)
(* of one message_id, exactly one of them returns dup=false, every other   *)
(* dup=true, and once they have returned exactly one row of that           *)
(* message_id exists.                                                      *)
(***************************************************************************)
Returned(p) == req[p].pc \in {"resume", "responded", "done"}

RejectedLeavesStoreUnchanged ==
    /\ \A p \in Requests :
          (Answered(p) /\ req[p].status \in {401, 422})
          => /\ \A i \in 1..Len(attempts) : attempts[i].by # p
             /\ req[p].msg = NoMsg
    /\ \A i \in 1..Len(attempts) :
          LET q == attempts[i].by
          IN  /\ SignatureGate(req[q].sig, secret, req[q].raw) = "pass"
              /\ ~JsonRaises(req[q].raw)
              /\ SchemaErrors(req[q].raw) = {}
    /\ \A r \in table :
          \E i \in 1..Len(attempts) :
             /\ ~attempts[i].dup
             /\ Fields(r) = req[attempts[i].by].msg

\* A wrongly signed request with a valid payload was answered 401 and a
\* signed one with an invalid payload 422, and the store is still empty.
RejectedLeavesStoreUnchangedWitness ==
    \E p, q \in Requests :
       /\ req[p].pc = "done" /\ req[p].status = 401
       /\ SchemaErrors(req[p].raw) = {}
       /\ req[q].pc = "done" /\ req[q].status = 422
       /\ table = {}

(***************************************************************************)
(* C9.  Webhook outcome accounting: every answered request carries one of  *)
(* the four result labels; the counter of each label counts the requests   *)
(* answered with it; every finished request has exactly one log record,    *)
(* carrying its label and status; the HTTP counter of each status counts   *)
(* the finished requests answered with it.                                 *)
(***************************************************************************)
LogsOf(p) == {i \in 1..Len(logs) : logs[i].request_id = p}

OutcomeAccounting ==
    /\ \A p \in Requests :
          /\ Answered(p) => (req[p].wf.set /\ req[p].wf.result \in Results)
          /\ req[p].pc = "done"
             => /\ Cardinality(LogsOf(p)) = 1
                /\ \A i \in LogsOf(p) : /\ logs[i].wf = req[p].wf
                                        /\ logs[i].status = req[p].status
                                        /\ logs[i].wf.result \in Results
          /\ req[p].pc # "done" => LogsOf(p) = {}
    /\ \A r \in Results :
          webhook_requests_total[r] =
             Cardinality({p \in Requests : Answered(p) /\ req[p].wf.result = r})
    /\ \A st \in Statuses :
          http_requests_total[<<"/webhook", st>>] =
             Cardinality({p \in Requests : req[p].pc = "done" /\ req[p].status = st})

(***************************************************************************)
(* One request at a time, over every kind of header and payload.           *)
(***************************************************************************)
\* "2025-01-15T10:00:00" (no Z)
TsNoZ ==
    <<"2", "0", "2", "5", "-", "0", "1", "-", "1", "5", "T", "1", "0", ":", "0", "0", ":", "0", "0">>

LongText(n) == Str([i \in 1..n |-> "a"])

\* A body other than the request's, signed by the client
OtherBody == Payload(Str(M2), Str(PhoneA), Str(PhoneB), Str(TsA), TextB)

AllHeaders(raw) ==
    {NoHeader,
     Header("empty", NoSecret, EmptyBody),
     Header("garbage", ClientKey, raw),
     Header("nonascii", ClientKey, raw),
     Header("hex", ClientKey, raw),
     Header("HEX", ClientKey, raw),
     Header("padded", ClientKey, raw),
     Header("hex", "wrong-key", raw),
     Header("hex", ClientKey, OtherBody)}

CoreBodies ==
    {EmptyBody, MalformedBody, ArrayBody,
     Payload(Str(M1), Str(PhoneA), Str(PhoneB), Str(TsA), TextA),
     Payload(Str(M1), Str(<<"1">>), Str(PhoneB), Str(TsA), TextA),
     Payload(Num, Str(PhoneA), Str(PhoneB), Str(TsA), TextA),
     Payload(Absent, Absent, Absent, Absent, Absent)}

\* JSON objects: every member missing, of the wrong type, violating its
\* constraint or satisfying it; from and to also under the field names.
WideBodies ==
    {ObjectBody([NoMembers EXCEPT !["message_id"] = id, !["from"] = f,
                                  !["from_msisdn"] = fn, !["to"] = t,
                                  !["to_msisdn"] = tn, !["ts"] = ts,
                                  !["text"] = tx]) :
        id \in {Absent, Num, Str(<<>>), Str(M1)},
        f \in {Absent, Num, Str(PhoneA), Str(<<"1">>), Str(<<"+">>)},
        fn \in {Absent, Str(PhoneA)},
        t \in {Absent, Str(PhoneB), Str(<<"+", "x">>)},
        tn \in {Absent, Str(PhoneB)},
        ts \in {Absent, Str(TsA), Str(TsNoZ)},
        tx \in {Absent, Null, Num, TextA, LongText(MaxTextLen), LongText(MaxTextLen + 1)}}

\* The store is empty or already holds message m1.
StoredBefore == Row(WebhookMessageIn(OtherBody), 0)

InitOne ==
    /\ secret \in {NoSecret, ClientKey}
    /\ table \in {{}, {[StoredBefore EXCEPT !.message_id = M1]}}
    /\ dbLock = 0
    /\ now = 0
    /\ req = [p \in Requests |-> IdleReq]
    /\ http_requests_total = [k \in Paths \X Statuses |-> 0]
    /\ webhook_requests_total = [r \in Results |-> 0]
    /\ request_latency = with_buckets
    /\ logs = <<>>
    /\ attempts = <<>>
    /\ lst = IdleList
    /\ InitService

NextOne ==
    \/ \E raw \in CoreBodies : \E sig \in AllHeaders(raw) : Handle(1, raw, sig)
    \/ \E raw \in WideBodies : Handle(1, raw, Header("hex", ClientKey, raw))
    \/ InsertExecute(1)
    \/ InsertCommit(1)
    \/ Resume(1)
    \/ \E ms \in SomeLatencies : Finish(1, ms)

SpecOne == InitOne /\ [][NextOne]_vars

(***************************************************************************)
(* The signature of a request is invalid: no secret is configured, or the  *)
(* header is missing, or its value is not the digest of the body.          *)
(***************************************************************************)
SignatureInvalid(p) ==
    \/ secret = NoSecret
    \/ req[p].sig.t = "absent"
    \/ StripLower(req[p].sig) # HexDigest(secret, req[p].raw)

(***************************************************************************)
(* C3.  Signature gate precedes validation: a request whose signature is   *)
(* invalid is answered 401, never 422, whatever its body; only requests    *)
(* that passed signature verification are answered by JSON parsing or      *)
(* schema validation.                                                      *)
(***************************************************************************)
SignatureGatePrecedesValidation ==
    \A p \in Requests :
       Answered(p) =>
          /\ SignatureInvalid(p) => (req[p].status = 401 /\ req[p].status # 422)
          /\ req[p].status = 422 => ~SignatureInvalid(p)
          /\ req[p].wf.result = "validation_error" => ~SignatureInvalid(p)

(***************************************************************************)
(* C4.  With the secret unconfigured, the X-Signature header absent or a   *)
(* header value that does not match the digest of the raw body, the        *)
(* request is answered 401 {"detail": "invalid signature"} and nothing     *)
(* else, for every header value and every body.                            *)
(***************************************************************************)
InvalidSignatureIs401 ==
    \A p \in Requests :
       (Answered(p) /\ SignatureInvalid(p))
       => /\ req[p].status = 401
          /\ req[p].body = InvalidSignatureBody
          /\ req[p].wf.result = "invalid_signature"

(***************************************************************************)
(* C10.  Validation gate: a correctly signed request whose body is JSON    *)
(* is accepted only if the payload is an object with message_id a          *)
(* non-empty string, from and to matching the phone pattern, ts matching   *)
(* the timestamp pattern and text absent (or null) or a string of at most  *)
(* 4096 characters; any other payload is answered 422 with a list of       *)
(* field errors and is not inserted.                                       *)
(***************************************************************************)
IsStr(v) == v.t = "str"

PayloadMeetsSchema(raw) ==
    /\ raw.kind = "object"
    /\ IsStr(raw.o["message_id"]) /\ Len(raw.o["message_id"].s) >= 1
    /\ IsStr(raw.o["from"]) /\ E164_REGEX(raw.o["from"].s)
    /\ IsStr(raw.o["to"]) /\ E164_REGEX(raw.o["to"].s)
    /\ IsStr(raw.o["ts"]) /\ ISO_UTC_Z_REGEX(raw.o["ts"].s)
    /\ \/ raw.o["text"].t \in {"absent", "null"}
       \/ IsStr(raw.o["text"]) /\ Len(raw.o["text"].s) <= 4096

ValidationGate ==
    \A p \in Requests :
       (Answered(p) /\ CorrectlySigned(p) /\ ~JsonRaises(req[p].raw))
       => IF PayloadMeetsSchema(req[p].raw)
          THEN req[p].status = 200
          ELSE /\ req[p].status = 422
               /\ req[p].body.kind = "detail: list"
               /\ req[p].body.errors # {}
               /\ \A i \in 1..Len(attempts) : attempts[i].by # p

(***************************************************************************)
(* Storage._build_filters and Storage.list_messages_sync.  An optional     *)
(* parameter is Null (None) or Str(s).                                     *)
(***************************************************************************)
\* Lower-casing of one character: str.lower() knows every letter, SQLite's
\* LOWER() and LIKE only the ASCII ones.  "U+00C9" and "U+00E9" stand for
\* the two cases of one letter outside ASCII.
PyLower(c) ==
    IF c = "A" THEN "a" ELSE IF c = "B" THEN "b" ELSE IF c = "T" THEN "t"
    ELSE IF c = "Z" THEN "z" ELSE IF c = "U+00C9" THEN "U+00E9" ELSE c

SqlLower(c) ==
    IF c = "A" THEN "a" ELSE IF c = "B" THEN "b" ELSE IF c = "T" THEN "t"
    ELSE IF c = "Z" THEN "z" ELSE c

\* q.lower()
PyLowerStr(s) == [i \in 1..Len(s) |-> PyLower(s[i])]

\* LOWER(x)
SqlLowerStr(s) == [i \in 1..Len(s) |-> SqlLower(s[i])]

\* SQLite's LIKE: % matches any run of characters, _ any one character,
\* any other character itself, ASCII letters without regard to case.
RECURSIVE Like(_, _)
Like(s, pat) ==
    IF pat = <<>> THEN s = <<>>
    ELSE IF pat[1] = "%"
    THEN \E k \in 0..Len(s) : Like(SubSeq(s, k + 1, Len(s)), Tail(pat))
    ELSE IF s = <<>> THEN FALSE
    ELSE /\ (pat[1] = "_" \/ SqlLower(pat[1]) = SqlLower(s[1]))
         /\ Like(Tail(s), Tail(pat))

\* COALESCE(text, '')
Coalesce(v) == IF v.t = "null" THEN <<>> ELSE v.s

\* The clauses of the WHERE, each with its argument
build_filters(from_filter, since, q) ==
    (IF from_filter.t = "str" /\ from_filter.s # <<>>
     THEN {[clause |-> "from_msisdn = ?", arg |-> from_filter.s]} ELSE {})
    \cup (IF since.t = "str" /\ since.s # <<>>
          THEN {[clause |-> "ts >= ?", arg |-> since.s]} ELSE {})
    \cup (IF q.t = "str"
          THEN {[clause |-> "LOWER(COALESCE(text,'')) LIKE ?",
                 arg |-> <<"%">> \o PyLowerStr(q.s) \o <<"%">>]}
          ELSE {})

ClauseHolds(r, c) ==
    IF c.clause = "from_msisdn = ?" THEN r.from_msisdn = c.arg
    ELSE IF c.clause = "ts >= ?" THEN StrLeq(c.arg, r.ts)
    ELSE Like(SqlLowerStr(Coalesce(r.text)), c.arg)

\* " WHERE " + " AND ".join(where); no clause, no WHERE
Where(tbl, where) == {r \in tbl : \A c \in where : ClauseHolds(r, c)}

\* Mutant: the count taken over the whole table
CountQuery_NoWhere(tbl, where) == Cardinality(tbl)

\* SELECT COUNT(*) AS c FROM messages + where_sql
CountQuery(tbl, where) == Cardinality(Where(tbl, where))

\* ORDER BY ts ASC, message_id ASC
RowBefore(a, b) ==
    \/ StrLess(a.ts, b.ts)
    \/ a.ts = b.ts /\ StrLess(a.message_id, b.message_id)

RECURSIVE OrderBy(_)
OrderBy(rows) ==
    IF rows = {} THEN <<>>
    ELSE LET first == CHOOSE x \in rows : \A y \in rows \ {x} : RowBefore(x, y)
         IN  <<first>> \o OrderBy(rows \ {first})

\* Mutant: the two parameters bound in the wrong order
LimitOffset_Swapped(rows, limit, offset) ==
    SubSeq(rows, limit + 1, Min(limit + offset, Len(rows)))

\* Mutant: OFFSET one row too far
LimitOffset_OneTooFar(rows, limit, offset) ==
    SubSeq(rows, offset + 2, Min(offset + 1 + limit, Len(rows)))

\* LIMIT ? OFFSET ?
LimitOffset(rows, limit, offset) ==
    SubSeq(rows, offset + 1, Min(offset + limit, Len(rows)))

\* SELECT ... FROM messages + where_sql + ORDER BY ... LIMIT ? OFFSET ?
SelectQuery(tbl, where, limit, offset) ==
    LimitOffset(OrderBy(Where(tbl, where)), limit, offset)

\* Query(50, ge=1, le=100), Query(0, ge=0), constr(pattern=ISO_UTC_Z_REGEX)
MinLimit == 1
MaxLimit == 100
QueryParamsValid(limit, offset, since) ==
    /\ limit >= MinLimit /\ limit <= MaxLimit
    /\ offset >= 0
    /\ since.t = "str" => ISO_UTC_Z_REGEX(since.s)

(***************************************************************************)
(* GET /messages, paged by a client: offsets 0, limit, 2*limit, ... with   *)
(* the same limit and filters until a page comes back empty, while other   *)
(* requests may insert.                                                    *)
(***************************************************************************)
M10 == <<"m", "1", "0">>
M3 == <<"m", "3">>

StoredRow(id, from, to, ts, text) ==
    [message_id |-> id, from_msisdn |-> from, to_msisdn |-> to, ts |-> ts,
     text |-> text, created_at |-> 0]

\* Rows other requests insert: equal ts under different message_ids, a
\* message_id that sorts by characters and not by number, a null text.
RowPool ==
    {StoredRow(M1, PhoneA, PhoneB, TsA, TextA),
     StoredRow(M2, PhoneA, PhoneB, TsA, TextB),
     StoredRow(M10, PhoneB, PhoneA, TsB, Null),
     StoredRow(M3, PhoneB, PhoneA, TsA, Str(<<"a", "_">>))}

FromFilters == {Null, Str(<<>>), Str(PhoneA), Str(PhoneB)}
SinceFilters == {Null, Str(TsA), Str(TsB)}
QFilters == {Null, Str(<<>>), Str(<<"a">>), Str(<<"B">>), Str(<<"%">>), Str(<<"_">>)}
PageLimits == (MinLimit..MaxPageLimit) \cup {MaxLimit}
QueryLatencies == {3}

\* insert_message_sync of another request, as a reader of the table sees
\* it: the committed row appears.
StoreInsert(r) ==
    /\ Cardinality(table) < MaxRows
    /\ ~UniqueViolation(table, r.message_id)
    /\ table' = table \cup {r}
    /\ lst' = [lst EXCEPT !.writes = (lst.pc # "idle")]
    /\ statsReq' = [statsReq EXCEPT !.writes = (statsReq.pc # "idle")]
    /\ UNCHANGED <<secret, dbLock, now, req, http_requests_total,
                   webhook_requests_total, request_latency, logs, attempts,
                   svcVars, metricVars>>

\* The client starts paging.
ListStart(limit, from, since, q) ==
    /\ lst.pc = "idle"
    /\ QueryParamsValid(limit, 0, since)
    /\ lst' = [IdleList EXCEPT !.pc = "count", !.limit = limit, !.from = from,
                               !.since = since, !.q = q, !.before = table]
    /\ UNCHANGED <<secret, table, dbLock, now, req, http_requests_total,
                   webhook_requests_total, request_latency, logs, attempts,
                   svcVars, statsReq, metricVars>>

\* list_messages_sync, first statement: the count
ListCount ==
    /\ lst.pc = "count"
    /\ lst' = [lst EXCEPT !.pc = "select",
                          !.total = CountQuery(table,
                                       build_filters(lst.from, lst.since, lst.q))]
    /\ UNCHANGED <<secret, table, dbLock, now, req, http_requests_total,
                   webhook_requests_total, request_latency, logs, attempts,
                   svcVars, statsReq, metricVars>>

\* list_messages_sync, second statement: the page; get_messages answers
\* {data, total, limit, offset} and the middleware counts and logs the
\* request.  The client goes on to the next offset unless the page is empty.
ListSelect(latency_ms) ==
    /\ lst.pc = "select"
    /\ Len(lst.totals) <= MaxRows
    /\ LET rows == SelectQuery(table, build_filters(lst.from, lst.since, lst.q),
                               lst.limit, lst.offset)
       IN  lst' = [lst EXCEPT !.pc = IF rows = <<>> THEN "finished" ELSE "count",
                              !.got = @ \o rows,
                              !.totals = Append(@, lst.total),
                              !.offset = IF rows = <<>> THEN @ ELSE @ + lst.limit]
    /\ http_requests_total' = inc_http(http_requests_total, "/messages", 200)
    /\ request_latency' = observe_latency(request_latency, latency_ms)
    /\ logs' = Append(logs, RequestLog(0, "GET", "/messages", 200, latency_ms, NoFields))
    /\ UNCHANGED <<secret, table, dbLock, now, req, webhook_requests_total, attempts,
                   svcVars, statsReq, metricVars>>

NextQuery ==
    \/ \E r \in RowPool : StoreInsert(r)
    \/ \E limit \in PageLimits : \E from \in FromFilters :
          \E since \in SinceFilters : \E q \in QFilters :
             ListStart(limit, from, since, q)
    \/ ListCount
    \/ \E ms \in QueryLatencies : ListSelect(ms)

InitQuery ==
    /\ Init
    /\ secret = ClientKey

SpecQuery == InitQuery /\ [][NextQuery]_vars

(***************************************************************************)
(* Observations of the paging client.                                      *)
(***************************************************************************)
GotRows == {lst.got[i] : i \in 1..Len(lst.got)}

\* The rows the filters of the running query select, as the store applies
\* them
Selected == Where(table, build_filters(lst.from, lst.since, lst.q))

NoFilters == lst.from = Null /\ lst.since = Null /\ lst.q = Null

(***************************************************************************)
(* C6.  Ordering and stable paging: with no write since the first page,    *)
(* the rows received so far ascend strictly by ts, then message_id, and    *)
(* once the empty page has come the pages hold every selected row exactly  *)
(* once: their concatenation is the sorted list of the selected rows (of   *)
(* the whole table when no filter is given).                               *)
(***************************************************************************)
OrderedStablePaging ==
    ~lst.writes =>
       /\ \A i, j \in 1..Len(lst.got) :
             i < j => \/ StrLess(lst.got[i].ts, lst.got[j].ts)
                      \/ /\ lst.got[i].ts = lst.got[j].ts
                         /\ StrLess(lst.got[i].message_id, lst.got[j].message_id)
       /\ GotRows \subseteq Selected
       /\ lst.pc = "finished" =>
             /\ GotRows = Selected
             /\ Len(lst.got) = Cardinality(Selected)
             /\ NoFilters => GotRows = table

\* Three rows, two of them with the same ts, came in two pages of limit 2
\* and the closing empty page.
OrderedStablePagingWitness ==
    /\ lst.pc = "finished" /\ ~lst.writes /\ NoFilters
    /\ lst.limit = 2 /\ Len(lst.got) = 3 /\ Len(lst.totals) = 3
    /\ lst.got[1].ts = lst.got[2].ts

Contains(s, sub) ==
    \E k \in 0..(Len(s) - Len(sub)) : SubSeq(s, k + 1, k + Len(sub)) = sub

SatisfiesFilters(r) ==
    /\ lst.from.t = "str" => r.from_msisdn = lst.from.s
    /\ lst.since.t = "str" => StrLeq(lst.since.s, r.ts)
    /\ lst.q.t = "str" =>
          Contains(PyLowerStr(Coalesce(r.text)), PyLowerStr(lst.q.s))

FilterCombination ==
    /\ \A i \in 1..Len(lst.got) : SatisfiesFilters(lst.got[i])
    /\ (~lst.writes /\ Len(lst.totals) >= 1)
          => lst.totals[1] = Cardinality({r \in table : SatisfiesFilters(r)})

(***************************************************************************)
(* Storage.stats_sync: four statements on one connection, each reading     *)
(* the table as it is when the statement runs.                             *)
(***************************************************************************)
\* SELECT COUNT(*) AS c FROM messages
CountAll(tbl) == Cardinality(tbl)

\* SELECT COUNT(DISTINCT from_msisdn) AS c FROM messages
CountDistinctSenders(tbl) == Cardinality({r.from_msisdn : r \in tbl})

\* SELECT from_msisdn, COUNT(*) AS c FROM messages GROUP BY from_msisdn
GroupBySender(tbl) ==
    {[from |-> s, count |-> Cardinality({r \in tbl : r.from_msisdn = s})] :
        s \in {r.from_msisdn : r \in tbl}}

\* ORDER BY c DESC leaves the order of senders with equal counts to SQLite:
\* the model lets them come in ascending or in descending order of sender.
TieBreaks == {"asc", "desc"}

\* Mutant: ORDER BY c ASC
GroupBefore_Ascending(a, b, tie) ==
    \/ a.count < b.count
    \/ /\ a.count = b.count
       /\ IF tie = "asc" THEN StrLess(a.from, b.from) ELSE StrLess(b.from, a.from)

GroupBefore(a, b, tie) ==
    \/ a.count > b.count
    \/ /\ a.count = b.count
       /\ IF tie = "asc" THEN StrLess(a.from, b.from) ELSE StrLess(b.from, a.from)

RECURSIVE OrderByCountDesc(_, _)
OrderByCountDesc(groups, tie) ==
    IF groups = {} THEN <<>>
    ELSE LET first == CHOOSE x \in groups :
                         \A y \in groups \ {x} : GroupBefore(x, y, tie)
         IN  <<first>> \o OrderByCountDesc(groups \ {first}, tie)

TopLimit == 10

\* ... GROUP BY from_msisdn ORDER BY c DESC LIMIT 10
TopSenders(tbl, tie) ==
    LimitOffset(OrderByCountDesc(GroupBySender(tbl), tie), TopLimit, 0)

\* SELECT MIN(ts) AS mn, MAX(ts) AS mx FROM messages: NULL over no rows
MinTs(tbl) ==
    IF tbl = {} THEN Null
    ELSE Str(CHOOSE t \in {r.ts : r \in tbl} : \A r \in tbl : StrLeq(t, r.ts))

MaxTs(tbl) ==
    IF tbl = {} THEN Null
    ELSE Str(CHOOSE t \in {r.ts : r \in tbl} : \A r \in tbl : StrLeq(r.ts, t))

\* The dict stats_sync returns
StatsBody(total, senders, per_sender, first_ts, last_ts) ==
    [kind |-> "stats", total_messages |-> total, senders_count |-> senders,
     messages_per_sender |-> per_sender, first_message_ts |-> first_ts,
     last_message_ts |-> last_ts]

\* What request_logging_middleware's finally block does to the metrics and
\* the log for a request that is not a webhook.
MiddlewareFinally(method, path, status, latency_ms) ==
    /\ http_requests_total' = inc_http(http_requests_total, path, status)
    /\ request_latency' = observe_latency(request_latency, latency_ms)
    /\ logs' = Append(logs, RequestLog(0, method, path, status, latency_ms, NoFields))

\* GET /stats arrives; stats_sync connects and runs its first statement.
StatsTotal ==
    /\ statsReq.pc = "idle"
    /\ reachable /\ schema
    /\ statsReq' = [statsReq EXCEPT !.pc = "senders", !.total = CountAll(table)]
    /\ UNCHANGED <<secret, table, dbLock, now, req, http_requests_total,
                   webhook_requests_total, request_latency, logs, attempts, lst,
                   svcVars, metricVars>>

StatsSenders ==
    /\ statsReq.pc = "senders"
    /\ statsReq' = [statsReq EXCEPT !.pc = "top",
                                    !.senders = CountDistinctSenders(table)]
    /\ UNCHANGED <<secret, table, dbLock, now, req, http_requests_total,
                   webhook_requests_total, request_latency, logs, attempts, lst,
                   svcVars, metricVars>>

StatsTop(tie) ==
    /\ statsReq.pc = "top"
    /\ statsReq' = [statsReq EXCEPT !.pc = "minmax",
                                    !.per_sender = TopSenders(table, tie)]
    /\ UNCHANGED <<secret, table, dbLock, now, req, http_requests_total,
                   webhook_requests_total, request_latency, logs, attempts, lst,
                   svcVars, metricVars>>

\* The last statement; get_stats answers the dict and the middleware counts
\* and logs the request.
StatsMinMax(latency_ms) ==
    /\ statsReq.pc = "minmax"
    /\ statsReq' = [statsReq EXCEPT !.pc = "done"]
    /\ resp' = [path |-> "/stats", status |-> 200,
                body |-> StatsBody(statsReq.total, statsReq.senders,
                                   statsReq.per_sender, MinTs(table), MaxTs(table))]
    /\ MiddlewareFinally("GET", "/stats", 200, latency_ms)
    /\ UNCHANGED <<secret, table, dbLock, now, req, webhook_requests_total,
                   attempts, lst, schema, reachable, startups, metricVars>>

(***************************************************************************)
(* Schema initialisation and the health endpoints.                         *)
(***************************************************************************)
\* Mutant: the schema is rebuilt from scratch
init_schema_sync_DropFirst(tbl) == {}

\* CREATE TABLE IF NOT EXISTS messages (...): the rows of an existing table
\* are left as they are, a new table is empty.
init_schema_sync(tbl) == tbl

\* _startup of another start of the service on the same database file
InitSchema ==
    /\ startups < MaxStartups
    /\ reachable
    /\ dbLock = 0
    /\ startups' = startups + 1
    /\ schema' = TRUE
    /\ table' = init_schema_sync(table)
    /\ UNCHANGED <<secret, dbLock, now, req, http_requests_total,
                   webhook_requests_total, request_latency, logs, attempts, lst,
                   reachable, resp, statsReq, metricVars>>

\* Mutant: sqlite_master is asked for a table of another name
schema_exists_sync_OtherName(reach, sch) ==
    IF ~reach THEN "raise" ELSE "false"

\* schema_exists_sync: "raise" when the database cannot be opened or read
schema_exists_sync(reach, sch) ==
    IF ~reach THEN "raise" ELSE IF sch THEN "true" ELSE "false"

NotReadyBody == [kind |-> "status: not_ready", errors |-> {}]
ReadyBody == [kind |-> "status: ready", errors |-> {}]
LiveBody == [kind |-> "status: live", errors |-> {}]

\* Mutant: readiness that does not look at the secret
health_ready_NoSecretCheck(key, reach, sch) ==
    IF schema_exists_sync(reach, sch) = "true"
    THEN [path |-> "/health/ready", status |-> 200, body |-> ReadyBody]
    ELSE [path |-> "/health/ready", status |-> 503, body |-> NotReadyBody]

\* health_ready
health_ready(key, reach, sch) ==
    IF key = NoSecret
    THEN [path |-> "/health/ready", status |-> 503, body |-> NotReadyBody]
    ELSE LET ok == schema_exists_sync(reach, sch)
         IN  IF ok = "raise"
             THEN [path |-> "/health/ready", status |-> 503, body |-> NotReadyBody]
             ELSE IF ok = "false"
             THEN [path |-> "/health/ready", status |-> 503, body |-> NotReadyBody]
             ELSE [path |-> "/health/ready", status |-> 200, body |-> ReadyBody]

\* health_live
health_live == [path |-> "/health/live", status |-> 200, body |-> LiveBody]

\* Calls of the health endpoints so far
ProbeCount ==
    http_requests_total[<<"/health/ready", 200>>]
    + http_requests_total[<<"/health/ready", 503>>]
    + http_requests_total[<<"/health/live", 200>>]

\* GET /health/ready
HealthReady(latency_ms) ==
    /\ ProbeCount < MaxProbes
    /\ resp' = health_ready(secret, reachable, schema)
    /\ MiddlewareFinally("GET", "/health/ready", resp'.status, latency_ms)
    /\ UNCHANGED <<secret, table, dbLock, now, req, webhook_requests_total,
                   attempts, lst, schema, reachable, startups, statsReq, metricVars>>

\* GET /health/live
HealthLive(latency_ms) ==
    /\ ProbeCount < MaxProbes
    /\ resp' = health_live
    /\ MiddlewareFinally("GET", "/health/live", 200, latency_ms)
    /\ UNCHANGED <<secret, table, dbLock, now, req, webhook_requests_total,
                   attempts, lst, schema, reachable, startups, statsReq, metricVars>>

(***************************************************************************)
(* The whole service: webhook calls that create, repeat or are rejected,   *)
(* a list query, a stats query, schema initialisation and health checks,   *)
(* in any order and overlapping.                                           *)
(***************************************************************************)
\* The same message_id with different fields, and bytes that are not JSON
ServiceBodies ==
    {Payload(Str(M1), Str(PhoneA), Str(PhoneB), Str(TsA), TextA),
     Payload(Str(M1), Str(PhoneB), Str(PhoneA), Str(TsB), Absent),
     MalformedBody}

\* Signed, except for one call that carries no signature
ServiceHeaders(raw) ==
    {Header("hex", ClientKey, raw)}
    \cup (IF raw = MalformedBody THEN {} ELSE IF raw.o["text"] = TextA THEN {NoHeader} ELSE {})

\* Webhook calls come one after the other here, and so do the queries; a
\* query may overlap a webhook call.  (Overlapping webhook calls are those
\* of Spec.)
WebhookQuiet == \A p \in Requests : req[p].pc \in {"idle", "done"}

QueryQuiet ==
    /\ lst.pc \in {"idle", "finished"}
    /\ statsReq.pc \in {"idle", "done"}

NextService ==
    \/ \E p \in Requests : \E raw \in ServiceBodies : \E sig \in ServiceHeaders(raw) :
          WebhookQuiet /\ Handle(p, raw, sig)
    \/ \E p \in Requests : InsertExecute(p)
    \/ \E p \in Requests : InsertCommit(p)
    \/ \E p \in Requests : Resume(p)
    \/ \E p \in Requests : \E ms \in QueryLatencies : Finish(p, ms)
    \/ QueryQuiet /\ ListStart(MaxLimit, Null, Null, Null)
    \/ ListCount
    \/ \E ms \in QueryLatencies : ListSelect(ms)
    \/ QueryQuiet /\ StatsTotal
    \/ StatsSenders
    \/ \E tie \in TieBreaks : StatsTop(tie)
    \/ \E ms \in QueryLatencies : StatsMinMax(ms)
    \/ QueryQuiet /\ startups = 0 /\ InitSchema
    \/ \E ms \in QueryLatencies : QueryQuiet /\ ProbeCount = 0 /\ HealthReady(ms)

SpecService == InitQuery /\ [][NextService]_vars

(***************************************************************************)
(* C11.  Row immutability: whatever operation runs (a webhook call that    *)
(* creates, repeats or is rejected, a list query, a stats query, schema    *)
(* initialisation, a readiness check), every row of the store is still in  *)
(* the store afterwards with every field, created_at included, as it was,  *)
(* and it is still the only row of its message_id.                         *)
(***************************************************************************)
RowImmutability ==
    [][\A r \in table :
          /\ r \in table'
          /\ \A r2 \in table' : r2.message_id = r.message_id => r2 = r]_vars

\* A row was created; afterwards a call repeating its message_id with other
\* fields was answered, the list query delivered the row, the stats query
\* counted it, a readiness check was answered, and the row is as the first
\* call created it.
RowImmutabilityWitness ==
    \E p, q \in Requests :
       /\ req[p].pc = "done" /\ req[p].wf.result = "created"
       /\ req[q].pc = "done" /\ req[q].wf.result = "duplicate"
       /\ req[q].msg # req[p].msg
       /\ lst.pc = "finished" /\ Len(lst.got) = 1
       /\ statsReq.pc = "done" /\ statsReq.total = 1
       /\ http_requests_total[<<"/health/ready", 200>>] = 1
       /\ table = {Row(req[p].msg, req[p].created_at)}

(***************************************************************************)
(* GET /stats over stores of up to MaxSenders senders, one of them with    *)
(* more rows than the others, while other requests may insert.             *)
(***************************************************************************)
DigitChar(n) == AsciiOrder[n + 4]

\* "+0" .. "+9", "+10", "+11", ...
Sender(i) ==
    IF i <= 10 THEN <<"+", DigitChar(i - 1)>>
    ELSE <<"+", "1", DigitChar((i - 11) % 10)>>

\* The j-th message of sender i
SenderRow(i, j) ==
    StoredRow(<<"x", DigitChar((i - 1) \div 10), DigitChar((i - 1) % 10), DigitChar(j)>>,
              Sender(i), PhoneA,
              [TsA EXCEPT ![16] = DigitChar((i - 1) \div 10),
                          ![18] = DigitChar(j),
                          ![19] = DigitChar((i - 1) % 10)],
              Null)

\* n senders with one message each, sender heavy with extra more
StatsTable(n, heavy, extra) ==
    {SenderRow(i, 1) : i \in 1..n}
    \cup (IF heavy <= n THEN {SenderRow(heavy, j) : j \in 2..(1 + extra)} ELSE {})

StatsTables ==
    {StatsTable(n, heavy, extra) :
        n \in 0..MaxSenders, heavy \in {1, MaxSenders}, extra \in 0..2}

InitStats ==
    /\ secret = ClientKey
    /\ table \in StatsTables
    /\ dbLock = 0
    /\ now = 0
    /\ req = [p \in Requests |-> IdleReq]
    /\ http_requests_total = [k \in Paths \X Statuses |-> 0]
    /\ webhook_requests_total = [r \in Results |-> 0]
    /\ request_latency = with_buckets
    /\ logs = <<>>
    /\ attempts = <<>>
    /\ lst = IdleList
    /\ InitService

NextStats ==
    \/ \E r \in RowPool : StoreInsert(r)
    \/ StatsTotal
    \/ StatsSenders
    \/ \E tie \in TieBreaks : StatsTop(tie)
    \/ \E ms \in QueryLatencies : StatsMinMax(ms)

SpecStats == InitStats /\ [][NextStats]_vars

(***************************************************************************)
(* C12.  Stats: answered over a store that no request wrote to meanwhile,  *)
(* GET /stats gives total_messages the number of rows, senders_count the   *)
(* number of distinct senders, messages_per_sender at most 10 entries of   *)
(* distinct senders, each with that sender's number of rows, in            *)
(* descending order of count and leaving out no sender with more rows      *)
(* than one it holds, and first/last_message_ts the least and greatest ts  *)
(* of the rows, null for the empty store.                                  *)
(***************************************************************************)
RowsFrom(s) == {r \in table : r.from_msisdn = s}

SendersOf == {r.from_msisdn : r \in table}

StatsCorrect ==
    (statsReq.pc = "done" /\ ~statsReq.writes) =>
       LET b == resp.body
           ps == b.messages_per_sender
           listed == {ps[i].from : i \in 1..Len(ps)}
       IN  /\ resp.path = "/stats" /\ resp.status = 200
           /\ b.total_messages = Cardinality(table)
           /\ b.senders_count = Cardinality(SendersOf)
           /\ Len(ps) <= 10
           /\ Len(ps) = Min(10, Cardinality(SendersOf))
           /\ Cardinality(listed) = Len(ps)
           /\ \A i \in 1..Len(ps) :
                 /\ ps[i].from \in SendersOf
                 /\ ps[i].count = Cardinality(RowsFrom(ps[i].from))
           /\ \A i, j \in 1..Len(ps) : i < j => ps[i].count >= ps[j].count
           /\ \A s \in SendersOf \ listed :
                 \A i \in 1..Len(ps) : Cardinality(RowsFrom(s)) <= ps[i].count
           /\ IF table = {}
              THEN b.first_message_ts = Null /\ b.last_message_ts = Null
              ELSE /\ \E r \in table : b.first_message_ts = Str(r.ts)
                   /\ \E r \in table : b.last_message_ts = Str(r.ts)
                   /\ \A r \in table :
                         /\ StrLeq(b.first_message_ts.s, r.ts)
                         /\ StrLeq(r.ts, b.last_message_ts.s)

\* The store held more than 10 senders, the one sorting last by name with
\* the most rows: it came first of the 10 entries.
StatsCorrectWitness ==
    /\ statsReq.pc = "done" /\ ~statsReq.writes
    /\ resp.body.senders_count > 10
    /\ Len(resp.body.messages_per_sender) = 10
    /\ resp.body.messages_per_sender[1] = [from |-> Sender(MaxSenders), count |-> 3]
    /\ resp.body.messages_per_sender[2].count = 1
    /\ resp.body.first_message_ts # resp.body.last_message_ts

(***************************************************************************)
(* The health endpoints, with or without a configured secret, over a       *)
(* database file that may be lost (SQLite then opens a new, empty file)    *)
(* or become unreadable, and be initialised again.                         *)
(***************************************************************************)
\* The database file is removed: the next connection creates an empty one.
DatabaseLost ==
    /\ schema
    /\ dbLock = 0
    /\ schema' = FALSE
    /\ table' = {}
    /\ UNCHANGED <<secret, dbLock, now, req, http_requests_total,
                   webhook_requests_total, request_latency, logs, attempts, lst,
                   reachable, resp, startups, statsReq, metricVars>>

\* The file or its directory stops or starts being accessible:
\* sqlite3.connect or execute raises while it is not.
AccessChanges ==
    /\ reachable' = ~reachable
    /\ UNCHANGED <<secret, table, dbLock, now, req, http_requests_total,
                   webhook_requests_total, request_latency, logs, attempts, lst,
                   schema, resp, startups, statsReq, metricVars>>

InitHealth ==
    /\ secret \in {NoSecret, ClientKey}
    /\ table \in {{}, {StoredBefore}}
    /\ dbLock = 0
    /\ now = 0
    /\ req = [p \in Requests |-> IdleReq]
    /\ http_requests_total = [k \in Paths \X Statuses |-> 0]
    /\ webhook_requests_total = [r \in Results |-> 0]
    /\ request_latency = with_buckets
    /\ logs = <<>>
    /\ attempts = <<>>
    /\ lst = IdleList
    /\ InitService

NextHealth ==
    \/ \E ms \in SomeLatencies : HealthReady(ms)
    \/ \E ms \in SomeLatencies : HealthLive(ms)
    \/ InitSchema
    \/ DatabaseLost
    \/ AccessChanges

SpecHealth == InitHealth /\ [][NextHealth]_vars

(***************************************************************************)
(* C13.  Readiness: a request to /health/ready is answered 200 {"status":  *)
(* "ready"} when a secret is configured, the messages table exists and     *)
(* the store is reachable, and 503 {"status": "not_ready"} in every other  *)
(* case, the schema check raising included; a request to /health/live is   *)
(* answered 200 {"status": "live"} in every state.  The status logged and  *)
(* counted is the status answered.                                         *)
(***************************************************************************)
\* This step answers a request to path
Answers(path) ==
    /\ Len(logs') = Len(logs) + 1
    /\ logs'[Len(logs')].path = path

ReadyAnswered ==
    Answers("/health/ready") =>
       /\ resp'.path = "/health/ready"
       /\ IF secret # NoSecret /\ schema /\ reachable
          THEN /\ resp'.status = 200
               /\ resp'.body = [kind |-> "status: ready", errors |-> {}]
          ELSE /\ resp'.status = 503
               /\ resp'.body = [kind |-> "status: not_ready", errors |-> {}]
       /\ logs'[Len(logs')].status = resp'.status
       /\ http_requests_total'[<<"/health/ready", resp'.status>>]
             = http_requests_total[<<"/health/ready", resp'.status>>] + 1

LiveAnswered ==
    Answers("/health/live") =>
       /\ resp'.path = "/health/live"
       /\ resp'.status = 200
       /\ resp'.body = [kind |-> "status: live", errors |-> {}]
       /\ logs'[Len(logs')].status = 200

ReadinessAnswer == [][ReadyAnswered /\ LiveAnswered]_vars

\* With a secret configured, a readiness check over an unreadable store was
\* answered 503 and a later one, the store readable and initialised, 200.
ReadinessAnswerWitness ==
    /\ secret # NoSecret /\ schema /\ reachable
    /\ Len(logs) = 2
    /\ logs[1].path = "/health/ready" /\ logs[1].status = 503
    /\ logs[2].path = "/health/ready" /\ logs[2].status = 200
    /\ resp.status = 200

(***************************************************************************)
(* app/metrics.py, statement by statement: threads calling inc_http,       *)
(* inc_webhook, observe_latency and render_prometheus of one Metrics       *)
(* object.  Every method body runs inside "with self._lock".               *)
(***************************************************************************)
\* Mutant: methods that do not take the lock
LockFree_Unlocked(lock) == TRUE

\* threading.Lock: acquire() returns once no thread holds the lock
LockFree(lock) == lock = 0

HttpArg(path, status) == [NoArg EXCEPT !.path = path, !.status = status]
WebhookArg(result) == [NoArg EXCEPT !.result = result]
LatencyArg(ms) == [NoArg EXCEPT !.ms = ms]

\* The lines of a counter: one per key of the dict, a key being in the
\* dict from its first increment on
RenderCounter(m) == {<<k, m[k]>> : k \in {x \in DOMAIN m : m[x] > 0}}

\* The bucket lines of the histogram, in the order of h.buckets
RenderBuckets(h) == [i \in 1..Len(Buckets) |-> h.counts[Buckets[i]]]

\* A thread calls a method.
MCall(t, op, arg) ==
    /\ calls[t].pc \in {"idle", "done"}
    /\ Len(applied) < MaxCalls
    /\ calls' = [calls EXCEPT ![t] = [IdleCall EXCEPT !.pc = "acquire", !.op = op,
                                                      !.arg = arg]]
    /\ UNCHANGED <<secret, table, dbLock, now, req, http_requests_total,
                   webhook_requests_total, request_latency, logs, attempts, lst,
                   svcVars, statsReq, mlock, applied>>

\* with self._lock: entry
MAcquire(t) ==
    /\ calls[t].pc = "acquire"
    /\ LockFree(mlock)
    /\ mlock' = t
    /\ applied' = Append(applied, [by |-> t, op |-> calls[t].op, arg |-> calls[t].arg])
    /\ calls' = [calls EXCEPT ![t] = [@ EXCEPT !.pc = calls[t].op,
                                               !.idx = Len(applied) + 1]]
    /\ UNCHANGED <<secret, table, dbLock, now, req, http_requests_total,
                   webhook_requests_total, request_latency, logs, attempts, lst,
                   svcVars, statsReq>>

\* with self._lock: exit, and the method returns
MRelease(t) ==
    /\ calls[t].pc = "release"
    /\ mlock' = 0
    /\ calls' = [calls EXCEPT ![t] = [@ EXCEPT !.pc = "done"]]
    /\ UNCHANGED <<secret, table, dbLock, now, req, http_requests_total,
                   webhook_requests_total, request_latency, logs, attempts, lst,
                   svcVars, statsReq, applied>>

\* inc_http: self.http_requests_total.get(key, 0)
IncHttpRead(t) ==
    /\ calls[t].pc = "inc_http"
    /\ calls' = [calls EXCEPT ![t] =
                   [@ EXCEPT !.pc = "inc_http_store",
                             !.read = http_requests_total[<<calls[t].arg.path,
                                                            calls[t].arg.status>>]]]
    /\ UNCHANGED <<secret, table, dbLock, now, req, http_requests_total,
                   webhook_requests_total, request_latency, logs, attempts, lst,
                   svcVars, statsReq, mlock, applied>>

\* inc_http: self.http_requests_total[key] = ... + 1
IncHttpStore(t) ==
    /\ calls[t].pc = "inc_http_store"
    /\ http_requests_total' =
          [http_requests_total EXCEPT ![<<calls[t].arg.path, calls[t].arg.status>>] =
                                         calls[t].read + 1]
    /\ calls' = [calls EXCEPT ![t] = [@ EXCEPT !.pc = "release"]]
    /\ UNCHANGED <<secret, table, dbLock, now, req, webhook_requests_total,
                   request_latency, logs, attempts, lst, svcVars, statsReq,
                   mlock, applied>>

\* inc_webhook: self.webhook_requests_total.get(result, 0)
IncWebhookRead(t) ==
    /\ calls[t].pc = "inc_webhook"
    /\ calls' = [calls EXCEPT ![t] =
                   [@ EXCEPT !.pc = "inc_webhook_store",
                             !.read = webhook_requests_total[calls[t].arg.result]]]
    /\ UNCHANGED <<secret, table, dbLock, now, req, http_requests_total,
                   webhook_requests_total, request_latency, logs, attempts, lst,
                   svcVars, statsReq, mlock, applied>>

\* inc_webhook: self.webhook_requests_total[result] = ... + 1
IncWebhookStore(t) ==
    /\ calls[t].pc = "inc_webhook_store"
    /\ webhook_requests_total' =
          [webhook_requests_total EXCEPT ![calls[t].arg.result] = calls[t].read + 1]
    /\ calls' = [calls EXCEPT ![t] = [@ EXCEPT !.pc = "release"]]
    /\ UNCHANGED <<secret, table, dbLock, now, req, http_requests_total,
                   request_latency, logs, attempts, lst, svcVars, statsReq,
                   mlock, applied>>

\* observe_latency -> Histogram.observe(max(0.0, seconds)): self.count += 1
ObserveCount(t) ==
    /\ calls[t].pc = "observe_latency"
    /\ request_latency' = [request_latency EXCEPT !.count = @ + 1]
    /\ calls' = [calls EXCEPT ![t] =
                   [@ EXCEPT !.pc = "observe_sum",
                             !.read = IF calls[t].arg.ms < 0 THEN 0 ELSE calls[t].arg.ms]]
    /\ UNCHANGED <<secret, table, dbLock, now, req, http_requests_total,
                   webhook_requests_total, logs, attempts, lst, svcVars, statsReq,
                   mlock, applied>>

\* Histogram.observe: self.sum += value
ObserveSum(t) ==
    /\ calls[t].pc = "observe_sum"
    /\ request_latency' = [request_latency EXCEPT !.sum = @ + calls[t].read]
    /\ calls' = [calls EXCEPT ![t] = [@ EXCEPT !.pc = "observe_buckets"]]
    /\ UNCHANGED <<secret, table, dbLock, now, req, http_requests_total,
                   webhook_requests_total, logs, attempts, lst, svcVars, statsReq,
                   mlock, applied>>

\* Histogram.observe: for ub in self.buckets: if value <= ub: counts[ub] += 1
ObserveBuckets(t) ==
    /\ calls[t].pc = "observe_buckets"
    /\ request_latency' =
          [request_latency EXCEPT !.counts =
              [ub \in BucketSet |->
                  IF InBucket(calls[t].read, ub) THEN @[ub] + 1 ELSE @[ub]]]
    /\ calls' = [calls EXCEPT ![t] = [@ EXCEPT !.pc = "release"]]
    /\ UNCHANGED <<secret, table, dbLock, now, req, http_requests_total,
                   webhook_requests_total, logs, attempts, lst, svcVars, statsReq,
                   mlock, applied>>

\* render_prometheus: the lines of http_requests_total
RenderHttp(t) ==
    /\ calls[t].pc = "render_prometheus"
    /\ calls' = [calls EXCEPT ![t] =
                   [@ EXCEPT !.pc = "render_webhook",
                             !.out = [@ EXCEPT !.http = RenderCounter(http_requests_total)]]]
    /\ UNCHANGED <<secret, table, dbLock, now, req, http_requests_total,
                   webhook_requests_total, request_latency, logs, attempts, lst,
                   svcVars, statsReq, mlock, applied>>

\* render_prometheus: the lines of webhook_requests_total
RenderWebhook(t) ==
    /\ calls[t].pc = "render_webhook"
    /\ calls' = [calls EXCEPT ![t] =
                   [@ EXCEPT !.pc = "render_buckets",
                             !.out = [@ EXCEPT !.webhook =
                                         RenderCounter(webhook_requests_total)]]]
    /\ UNCHANGED <<secret, table, dbLock, now, req, http_requests_total,
                   webhook_requests_total, request_latency, logs, attempts, lst,
                   svcVars, statsReq, mlock, applied>>

\* render_prometheus: the bucket lines
RenderBucketLines(t) ==
    /\ calls[t].pc = "render_buckets"
    /\ calls' = [calls EXCEPT ![t] =
                   [@ EXCEPT !.pc = "render_totals",
                             !.out = [@ EXCEPT !.buckets = RenderBuckets(request_latency)]]]
    /\ UNCHANGED <<secret, table, dbLock, now, req, http_requests_total,
                   webhook_requests_total, request_latency, logs, attempts, lst,
                   svcVars, statsReq, mlock, applied>>

\* render_prometheus: the +Inf bucket, _sum and _count
RenderTotals(t) ==
    /\ calls[t].pc = "render_totals"
    /\ calls' = [calls EXCEPT ![t] =
                   [@ EXCEPT !.pc = "release",
                             !.out = [@ EXCEPT !.inf = request_latency.count,
                                               !.sum = request_latency.sum,
                                               !.count = request_latency.count]]]
    /\ UNCHANGED <<secret, table, dbLock, now, req, http_requests_total,
                   webhook_requests_total, request_latency, logs, attempts, lst,
                   svcVars, statsReq, mlock, applied>>

\* The steps of the methods
MetricsStep(t) ==
    \/ MAcquire(t)
    \/ IncHttpRead(t)
    \/ IncHttpStore(t)
    \/ IncWebhookRead(t)
    \/ IncWebhookStore(t)
    \/ ObserveCount(t)
    \/ ObserveSum(t)
    \/ ObserveBuckets(t)
    \/ RenderHttp(t)
    \/ RenderWebhook(t)
    \/ RenderBucketLines(t)
    \/ RenderTotals(t)
    \/ MRelease(t)

\* The calls of the concurrent specification: each thread makes one.
SomeCalls ==
    {[op |-> "inc_http", arg |-> HttpArg("/webhook", 200)],
     [op |-> "inc_http", arg |-> HttpArg("/webhook", 401)],
     [op |-> "inc_webhook", arg |-> WebhookArg("created")],
     [op |-> "observe_latency", arg |-> LatencyArg(3)],
     [op |-> "observe_latency", arg |-> LatencyArg(7000)],
     [op |-> "render_prometheus", arg |-> NoArg]}

NextMetrics ==
    \/ \E t \in Threads : \E c \in SomeCalls :
          calls[t].pc = "idle" /\ MCall(t, c.op, c.arg)
    \/ \E t \in Threads : MetricsStep(t)

SpecMetrics == InitQuery /\ [][NextMetrics]_vars

(***************************************************************************)
(* Observations of the Metrics calls.  applied lists the calls in the      *)
(* order in which they entered their method body.                          *)
(***************************************************************************)
\* No call is under way
MetricsQuiet == \A t \in Threads : calls[t].pc \in {"idle", "done"}

\* The calls of op with arg among the first n calls
CallsMade(n, op, arg) ==
    Cardinality({i \in 1..n : applied[i].op = op /\ applied[i].arg = arg})

\* The latencies observed by the first n calls, negative ones counting 0
Observed(n) == {i \in 1..n : applied[i].op = "observe_latency"}

ObservedValue(i) == IF applied[i].arg.ms < 0 THEN 0 ELSE applied[i].arg.ms

RECURSIVE SumObserved(_)
SumObserved(n) ==
    IF n = 0 THEN 0
    ELSE SumObserved(n - 1)
         + (IF applied[n].op = "observe_latency" THEN ObservedValue(n) ELSE 0)

(***************************************************************************)
(* C14.  Metrics calls of concurrent threads lose no update: once the      *)
(* calls have returned, each (path, status) counter is the number of       *)
(* inc_http calls with that key, each result counter the number of         *)
(* inc_webhook calls with that label, the histogram count the number of    *)
(* observe_latency calls; and what a render returns is the state of the    *)
(* metrics after exactly the calls that came before it: no observation     *)
(* shows in part.                                                          *)
(***************************************************************************)
NoLostUpdate ==
    /\ MetricsQuiet =>
          /\ \A k \in Paths \X Statuses :
                http_requests_total[k]
                   = CallsMade(Len(applied), "inc_http", HttpArg(k[1], k[2]))
          /\ \A r \in Results :
                webhook_requests_total[r]
                   = CallsMade(Len(applied), "inc_webhook", WebhookArg(r))
          /\ request_latency.count = Cardinality(Observed(Len(applied)))
    /\ \A t \in Threads :
          (calls[t].op = "render_prometheus" /\ calls[t].pc = "done") =>
             LET n == calls[t].idx - 1
                 out == calls[t].out
             IN  /\ \A k \in Paths \X Statuses :
                       LET c == CallsMade(n, "inc_http", HttpArg(k[1], k[2]))
                       IN  IF c = 0 THEN \A v \in 0..MaxCalls : <<k, v>> \notin out.http
                           ELSE <<k, c>> \in out.http
                 /\ \A r \in Results :
                       LET c == CallsMade(n, "inc_webhook", WebhookArg(r))
                       IN  IF c = 0 THEN \A v \in 0..MaxCalls : <<r, v>> \notin out.webhook
                           ELSE <<r, c>> \in out.webhook
                 /\ out.count = Cardinality(Observed(n))
                 /\ out.inf = out.count
                 /\ out.sum = SumObserved(n)
                 /\ \A i \in 1..Len(Buckets) :
                       out.buckets[i]
                          = Cardinality({j \in Observed(n) : ObservedValue(j) <= Buckets[i]})

\* Two threads were inside inc_http for the same key at overlapping times
\* (one waiting for the lock while the other held it), a render came after
\* an observation, and all have returned.
NoLostUpdateWitness ==
    /\ MetricsQuiet
    /\ Len(applied) = 3
    /\ applied[1].op = "inc_http" /\ applied[2].op = "inc_http"
    /\ applied[2].arg = applied[1].arg /\ applied[2].by # applied[1].by
    /\ http_requests_total[<<applied[1].arg.path, applied[1].arg.status>>] = 2
    /\ \E t \in Threads :
          /\ calls[t].op = "render_prometheus" /\ calls[t].pc = "done"
          /\ <<<<applied[1].arg.path, applied[1].arg.status>>, 2>> \in calls[t].out.http

(***************************************************************************)
(* The histogram alone: one caller observing latencies below, on and       *)
(* above bucket bounds, a negative one included, and rendering.            *)
(***************************************************************************)
HistogramCalls ==
    {[op |-> "observe_latency", arg |-> LatencyArg(ms)] :
        ms \in {0 - 1, 0, 5, 6, 5000, 5001}}
    \cup {[op |-> "render_prometheus", arg |-> NoArg]}

NextHistogram ==
    \/ \E c \in HistogramCalls : MCall(1, c.op, c.arg)
    \/ MAcquire(1)
    \/ ObserveCount(1)
    \/ ObserveSum(1)
    \/ ObserveBuckets(1)
    \/ RenderHttp(1)
    \/ RenderWebhook(1)
    \/ RenderBucketLines(1)
    \/ RenderTotals(1)
    \/ MRelease(1)

SpecHistogram == InitQuery /\ [][NextHistogram]_vars

(***************************************************************************)
(* C15.  Histogram cumulative semantics: after any sequence of             *)
(* observations the count of every bucket is the number of observations    *)
(* <= its bound (each observation went into exactly the buckets whose      *)
(* bound is >= its value), the counts do not decrease as the bound grows,  *)
(* none exceeds the total count, and a render gives these counts and an    *)
(* +Inf bucket equal to the total count.                                   *)
(***************************************************************************)
\* The observations made by the first n calls that are <= bound
ObservedUpTo(n, bound) == {i \in Observed(n) : applied[i].arg.ms <= bound}

HistogramCumulative ==
    /\ MetricsQuiet =>
          LET n == Len(applied)
          IN  /\ request_latency.count = Cardinality(Observed(n))
              /\ \A i \in 1..Len(Buckets) :
                    /\ request_latency.counts[Buckets[i]]
                          = Cardinality(ObservedUpTo(n, Buckets[i]))
                    /\ request_latency.counts[Buckets[i]] <= request_latency.count
                    /\ \A j \in 1..Len(Buckets) :
                          i < j => request_latency.counts[Buckets[i]]
                                      <= request_latency.counts[Buckets[j]]
    /\ (calls[1].op = "render_prometheus" /\ calls[1].pc = "done") =>
          LET n == calls[1].idx - 1
          IN  /\ calls[1].out.inf = Cardinality(Observed(n))
              /\ calls[1].out.inf = request_latency.count
              /\ Len(calls[1].out.buckets) = Len(Buckets)
              /\ \A i \in 1..Len(Buckets) :
                    /\ calls[1].out.buckets[i] = Cardinality(ObservedUpTo(n, Buckets[i]))
                    /\ calls[1].out.buckets[i] <= calls[1].out.inf

\* A latency on the first bound and one above the last bound were observed
\* and then rendered: 1 in every bucket, 2 in +Inf.
HistogramCumulativeWitness ==
    /\ MetricsQuiet /\ Len(applied) = 3
    /\ applied[1].op = "observe_latency" /\ applied[1].arg.ms = 5
    /\ applied[2].op = "observe_latency" /\ applied[2].arg.ms = 5001
    /\ calls[1].op = "render_prometheus" /\ calls[1].pc = "done"
    /\ calls[1].out.buckets[1] = 1 /\ calls[1].out.buckets[Len(Buckets)] = 1
    /\ calls[1].out.inf = 2

(***************************************************************************)
(* C16.  Signature acceptance criterion, as claimed: a request passes      *)
(* signature verification if and only if a secret is configured and the    *)
(* value of its X-Signature header equals the lower-case hex HMAC-SHA256   *)
(* digest of the raw body under that secret; a header value not equal to   *)
(* the digest does not pass.                                               *)
(***************************************************************************)
\* The request went on to JSON parsing: it was answered 422 or 200, or its
\* insert is under way.
PassedVerification(p) == req[p].pc # "idle" /\ req[p].status \in {200, 422}

SignatureAcceptance ==
    \A p \in Requests :
       req[p].pc # "idle" =>
          (PassedVerification(p)
             <=> /\ secret # NoSecret
                 /\ req[p].sig = [t |-> "str", form |-> "hex", key |-> secret,
                                  msg |-> req[p].raw])

(***************************************************************************)
(* C16, amended: a request passes signature verification if and only if a  *)
(* secret is configured and the value of its X-Signature header, with      *)
(* surrounding whitespace removed and letters lower-cased, equals the hex  *)
(* digest of the raw body under that secret; any other header value, or    *)
(* no header, does not pass.                                               *)
(***************************************************************************)
\* The header is the digest of msg under key, in lower or upper case, bare
\* or between whitespace
DigestUpToCaseAndSpace(h, key, msg) ==
    /\ h.t = "str"
    /\ h.form \in {"hex", "HEX", "padded"}
    /\ h.key = key
    /\ h.msg = msg

SignatureAcceptanceNormalised ==
    \A p \in Requests :
       req[p].pc # "idle" =>
          /\ PassedVerification(p)
                <=> /\ secret # NoSecret
                    /\ DigestUpToCaseAndSpace(req[p].sig, secret, req[p].raw)
          /\ ~PassedVerification(p) =>
                /\ req[p].status \in {401, 500}
                /\ \A i \in 1..Len(attempts) : attempts[i].by # p

\* A request signed with the digest in upper case was accepted and its
\* message stored.
SignatureAcceptanceNormalisedWitness ==
    /\ req[1].pc = "done"
    /\ req[1].sig = Header("HEX", secret, req[1].raw)
    /\ req[1].status = 200
    /\ req[1].wf.result = "created"
    /\ table # {}

(***************************************************************************)
(* C17.  Text filter q: when q is given, a row matches if and only if q    *)
(* occurs in the row's text as a contiguous substring, letters compared    *)
(* without regard to case and a null text taken as the empty string, for   *)
(* every q ("%", "_" and the empty q included): the rows returned all      *)
(* match, and with q the only filter the total is the number of rows that  *)
(* match.                                                                  *)
(***************************************************************************)
QMatches(r) == Contains(PyLowerStr(Coalesce(r.text)), PyLowerStr(lst.q.s))

TextFilterSubstring ==
    lst.q.t = "str" =>
       /\ \A i \in 1..Len(lst.got) : QMatches(lst.got[i])
       /\ (lst.from = Null /\ lst.since = Null /\ ~lst.writes /\ Len(lst.totals) >= 1)
             => lst.totals[1] = Cardinality({r \in table : QMatches(r)})

(***************************************************************************)
(* C18.  Sender filter: whenever from is given, the empty string           *)
(* included, only rows whose from_msisdn equals it are returned, and with  *)
(* from the only filter the total counts exactly those rows.               *)
(***************************************************************************)
SenderFilterExact ==
    lst.from.t = "str" =>
       /\ \A i \in 1..Len(lst.got) : lst.got[i].from_msisdn = lst.from.s
       /\ (lst.since = Null /\ lst.q = Null /\ ~lst.writes /\ Len(lst.totals) >= 1)
             => lst.totals[1]
                   = Cardinality({r \in table : r.from_msisdn = lst.from.s})

(***************************************************************************)
(* C19.  Consistency of the logged classification: in every request log    *)
(* record of POST /webhook the triple (status, result, dup) is one of      *)
(* (401, invalid_signature, false), (422, validation_error, false),        *)
(* (200, created, false), (200, duplicate, true); dup is true exactly      *)
(* when result is duplicate; message_id is null when the body of a         *)
(* request past the signature gate is not valid JSON, the validated        *)
(* message_id on created and duplicate, and otherwise the message_id       *)
(* member of the body if the body is a JSON object that has one, else      *)
(* null.                                                                   *)
(***************************************************************************)
Classifications ==
    {<<401, "invalid_signature", FALSE>>, <<422, "validation_error", FALSE>>,
     <<200, "created", FALSE>>, <<200, "duplicate", TRUE>>}

\* The message_id member of a body that is a JSON object, null otherwise
MessageIdOfBody(raw) ==
    IF raw.kind = "object" /\ raw.o["message_id"].t # "absent"
    THEN raw.o["message_id"] ELSE Null

LoggedClassification ==
    \A i \in 1..Len(logs) :
       logs[i].path = "/webhook" =>
          LET rec == logs[i]
              raw == req[rec.request_id].raw
          IN  /\ rec.wf.set
              /\ <<rec.status, rec.wf.result, rec.wf.dup>> \in Classifications
              /\ rec.wf.dup <=> rec.wf.result = "duplicate"
              /\ rec.wf.message_id =
                    IF rec.wf.result = "validation_error" /\ raw.kind \in {"empty", "malformed"}
                    THEN Null
                    ELSE IF rec.wf.result \in {"created", "duplicate"}
                    THEN [t |-> "str", s |-> req[rec.request_id].msg.message_id]
                    ELSE MessageIdOfBody(raw)

(***************************************************************************)
(* C20.  Every POST /webhook request ends in exactly one of the four       *)
(* terminal outcomes invalid_signature/401, validation_error/422,          *)
(* created/200, duplicate/200, also with other requests running against    *)
(* the same store and metrics; and once answered it does nothing more: it  *)
(* ran at most one INSERT and its outcome was counted once.                *)
(***************************************************************************)
TerminalOutcomes ==
    {<<"invalid_signature", 401>>, <<"validation_error", 422>>,
     <<"created", 200>>, <<"duplicate", 200>>}

OneTerminalOutcome ==
    /\ \A p \in Requests :
          Answered(p) =>
             /\ <<req[p].wf.result, req[p].status>> \in TerminalOutcomes
             /\ Cardinality({i \in 1..Len(attempts) : attempts[i].by = p}) <= 1
    /\ \A r \in Results :
          webhook_requests_total[r]
             = Cardinality({p \in Requests : Answered(p) /\ req[p].wf.result = r})


(***************************************************************************)
(* Starting the service on a database file that is new, or that holds the  *)
(* table and the rows of earlier runs: _startup runs init_schema, requests *)
(* insert rows and ask for readiness, and the service is started again.    *)
(***************************************************************************)
\* Stores of earlier runs: up to two rows
EarlierStores == {st \in SUBSET RowPool : Cardinality(st) < MaxRows}

InitStartup ==
    /\ secret = ClientKey
    /\ schema \in BOOLEAN
    /\ table \in (IF schema THEN EarlierStores ELSE {{}})
    /\ dbLock = 0
    /\ now = 0
    /\ req = [p \in Requests |-> IdleReq]
    /\ http_requests_total = [k \in Paths \X Statuses |-> 0]
    /\ webhook_requests_total = [r \in Results |-> 0]
    /\ request_latency = with_buckets
    /\ logs = <<>>
    /\ attempts = <<>>
    /\ lst = IdleList
    /\ reachable = TRUE
    /\ resp = NoResp
    /\ startups = 0
    /\ statsReq = IdleStats
    /\ mlock = 0
    /\ calls = [t \in Threads |-> IdleCall]
    /\ applied = <<>>

\* Without the table the INSERT raises "no such table" and stores nothing.
NextStartup ==
    \/ InitSchema
    \/ \E r \in RowPool : schema /\ StoreInsert(r)
    \/ \E ms \in QueryLatencies : HealthReady(ms)

SpecStartup == InitStartup /\ [][NextStartup]_vars

(***************************************************************************)
(* C21.  Schema initialisation is idempotent: every run of init_schema,    *)
(* the first on a new file, the first on a file that holds rows and every  *)
(* later one, leaves the table present and the rows exactly as they were;  *)
(* and once init_schema has run, schema_exists returns true and a          *)
(* readiness check is answered 200.                                        *)
(***************************************************************************)
InitSchemaRan == startups' = startups + 1

SchemaInitIdempotent ==
    [][/\ InitSchemaRan => (schema' /\ table' = table)
       /\ startups' >= 1 =>
             /\ schema_exists_sync(reachable', schema') = "true"
             /\ resp'.path = "/health/ready" /\ resp' # resp => resp'.status = 200]_vars

\* init_schema has run MaxStartups times over a store that holds rows, and
\* a readiness check after the last run was answered 200.
SchemaInitIdempotentWitness ==
    /\ startups = MaxStartups
    /\ table # {}
    /\ resp.path = "/health/ready" /\ resp.status = 200
    /\ http_requests_total[<<"/health/ready", 200>>] = 1

(***************************************************************************)
(* C22.  Snapshot of one GET /messages response: whatever commits while    *)
(* the request runs, the page holds no more rows than the total it         *)
(* reports, and a page at offset 0 whose limit is at least that total      *)
(* holds exactly that many rows.                                           *)
(***************************************************************************)
\* The step in which list_messages_sync returns its page
ListAnswered == lst.pc = "select" /\ lst'.pc # "select"

\* The number of rows of that page
PageLength == Len(lst'.got) - Len(lst.got)

ListSnapshot ==
    [][ListAnswered =>
          /\ PageLength <= lst'.totals[Len(lst'.totals)]
          /\ (lst.offset = 0 /\ lst.limit >= lst'.totals[Len(lst'.totals)])
                => PageLength = lst'.totals[Len(lst'.totals)]]_vars

(***************************************************************************)
(* C23.  Snapshot of one GET /stats response: whatever commits while the   *)
(* request runs, messages_per_sender has min(senders_count, 10) entries,   *)
(* their counts add up to at most total_messages, and to exactly           *)
(* total_messages when senders_count <= 10, and total_messages is 0        *)
(* exactly when first_message_ts and last_message_ts are null.             *)
(***************************************************************************)
RECURSIVE SumCounts(_)
SumCounts(ps) ==
    IF ps = <<>> THEN 0 ELSE ps[1].count + SumCounts(Tail(ps))

StatsSnapshot ==
    (statsReq.pc = "done" /\ resp.path = "/stats") =>
       LET b == resp.body
           ps == b.messages_per_sender
       IN  /\ Len(ps) = Min(b.senders_count, 10)
           /\ SumCounts(ps) <= b.total_messages
           /\ b.senders_count <= 10 => SumCounts(ps) = b.total_messages
           /\ b.total_messages = 0 <=>
                 (b.first_message_ts = Null /\ b.last_message_ts = Null)

(***************************************************************************)
(* C24.  Paging while messages are inserted: when the client has received  *)
(* the empty page, every row that was in the store before its first page   *)
(* request and that the filters select has come on at least one page,      *)
(* whatever was inserted between or during the page requests (a row may    *)
(* have come twice).                                                       *)
(***************************************************************************)
\* The rows stored before the first page request that the filters select
SelectedBefore == Where(lst.before, build_filters(lst.from, lst.since, lst.q))

PagingSkipsNothing ==
    lst.pc = "finished" => SelectedBefore \subseteq GotRows

\* Two rows were stored before the first page of limit 1; a row sorting
\* before them was inserted while the client paged, and the client got a
\* row twice and every one of the two.
PagingSkipsNothingWitness ==
    /\ lst.pc = "finished" /\ lst.writes /\ lst.limit = 1
    /\ Cardinality(SelectedBefore) = 2
    /\ Len(lst.got) > Cardinality(GotRows)
    /\ \E r \in table \ lst.before : \A b \in SelectedBefore : RowBefore(r, b)
    /\ SelectedBefore \subseteq GotRows

=============================================================================
